---- MODULE Spec2Model ----
(***************************************************************************)
(* KaizenLap: the deployment pipeline script, the lap-time comparison      *)
(* components, the best-case composite builder and the recommendation      *)
(* panel with its data hook, as state machines.                            *)
(***************************************************************************)
EXTENDS Integers, Sequences, FiniteSets, TLC

VARIABLES
    \* ---- tools/deployment/deploy_complete_pipeline.sh ----
    pc,          \* the command the script is at
    race,        \* race_id of the for loop of Step 3
    job,         \* index of the analysis job inside the loop body (or of Step 2's loop)
    running,     \* job executions in progress
    started,     \* job executions that were started
    completed,   \* job executions that completed successfully
    gemma,       \* the gemma3-inference service: "absent", "serving", "deleted"
    printed,     \* TRUE once "PIPELINE COMPLETE" was echoed
    peak,        \* largest number of analytics executions seen in progress together
    updatedJobs, \* jobs whose 'jobs create' failed and whose 'jobs update' then succeeded
    \* ---- one render of a presentational component ----
    component,   \* the component rendered
    props,       \* the props it is rendered with
    rendered,    \* TRUE once the render function has run
    view,        \* what the render function returned
    \* ---- the best-case composite builder and its document store ----
    raw,         \* race -> the section-time records ingested for it (immutable)
    composites,  \* race -> the stored best-case composite document, "none" before the first run
    runs,        \* race -> number of times the builder has processed it
    \* ---- DraggableRecommendationPanel and its useApi(endpoint) ----
    panelProps,  \* recommendationType, lapSectionId, raceId, vehicleId (0 is null)
    effectFor,   \* the endpoint the hook's effect last ran for
    data,        \* useApi: data
    loading,     \* useApi: loading
    error,       \* useApi: error
    inflight,    \* requests issued by axios.get and not yet settled
    nextId,      \* number of the next request
    lastResponse, \* the last response delivered to a request that was not aborted
    cancelled,   \* number of aborted requests whose promise has settled
    \* ---- RaceSelector inside LapReview, with the recommendation toggle and panel ----
    selectedTrack, selectedRace, selectedDriver, selectedLap,   \* '' is 0
    isComposite,
    selection,   \* LapReview: selection (Null or the object passed to onSelectionChange)
    activeRecommendationType, \* LapReview: "null" or a recommendation type
    notifyPending, \* TRUE while RaceSelector's notification effect has not yet run
    lastChange,  \* the RaceSelector handler that ran last: "none", "track", "race", "driver", "lap"
    \* ---- LapReview: sections and playback ----
    lapSelection,        \* the selection, as the sections endpoint it stands for (0: none)
    currentSectionIndex,
    isPlaying,
    lapData,             \* useApi(sectionsEndpoint).data: "null" or the number of sections
    lapInflight,         \* section requests not yet settled
    lapEffects,          \* the effects a render left to run: "none", "reset", "resetAndFetch"
    lastEvent,           \* the handler or callback that ran last, with the state it saw
    lapRequests,         \* number of section requests issued
    \* ---- DraggableSectionPanel ----
    storage,     \* localStorage: a function from the keys present to their text
    position,
    size,
    dpc,         \* "mount", "loading" (re-render after the load effect), "loaded", "used"
    positionDirty, sizeDirty, \* the state changed since its save effect last ran
    isDragging, isResizing,
    saved        \* what localStorage held when the panel mounted

pvars == <<pc, race, job, running, started, completed, gemma, printed, peak, updatedJobs>>

rvars == <<component, props, rendered, view>>

bvars == <<raw, composites, runs>>

avars == <<panelProps, effectFor, data, loading, error, inflight, nextId, lastResponse, cancelled>>

svars == <<selectedTrack, selectedRace, selectedDriver, selectedLap, isComposite, selection,
           activeRecommendationType, notifyPending, lastChange>>

lvars == <<lapSelection, currentSectionIndex, isPlaying, lapData, lapInflight, lapEffects,
           lastEvent, lapRequests>>

dvars == <<storage, position, size, dpc, positionDirty, sizeDirty, isDragging, isResizing, saved>>

vars == <<pvars, rvars, bvars, avars, svars, lvars, dvars>>

\* Values of the variables of the parts that a specification leaves out.
RenderIdle == component = "none" /\ props = "none" /\ rendered = FALSE /\ view = "none"

ApiIdle ==
    /\ panelProps = "none" /\ effectFor = "none" /\ data = "none" /\ loading = FALSE
    /\ error = "none" /\ inflight = {} /\ nextId = 0 /\ lastResponse = "none"
    /\ cancelled = 0

BuilderIdle == raw = "none" /\ composites = "none" /\ runs = "none"

PipelineIdle ==
    /\ pc = "idle" /\ race = 0 /\ job = 0 /\ running = {} /\ started = {} /\ completed = {}
    /\ gemma = "absent" /\ printed = FALSE /\ peak = 0 /\ updatedJobs = {}

SelectorIdle ==
    /\ selectedTrack = 0 /\ selectedRace = 0 /\ selectedDriver = 0 /\ selectedLap = 0
    /\ isComposite = FALSE /\ selection = "none" /\ activeRecommendationType = "none"
    /\ notifyPending = FALSE /\ lastChange = "none"

LapIdle ==
    /\ lapSelection = 0 /\ currentSectionIndex = 0 /\ isPlaying = FALSE /\ lapData = "none"
    /\ lapInflight = {} /\ lapEffects = "none" /\ lastEvent = "none" /\ lapRequests = 0

DragIdle ==
    /\ storage = "none" /\ position = "none" /\ size = "none" /\ dpc = "idle"
    /\ positionDirty = FALSE /\ sizeDirty = FALSE /\ isDragging = FALSE /\ isResizing = FALSE
    /\ saved = "none"

----------------------------------------------------------------------------
(* deploy_complete_pipeline.sh *)

NumRaces == 14

AnalysisJobs == <<"process-section-analysis", "process-weather-analysis", "process-pattern-analysis">>

InitJob == "init-and-compute"

CoachingJob == "generate-coaching-insights"

\* One execution of a Cloud Run job; race is 0 for the jobs that take no race id.
Exec(j, r) == <<j, r>>

InitExec == Exec(InitJob, 0)

CoachingExec == Exec(CoachingJob, 0)

AnalysisExecs == {Exec(AnalysisJobs[i], r) : i \in 1..3, r \in 1..NumRaces}

\* The four analytics engines: Job 1 (init-and-compute builds the composite) and Jobs 2-4.
AnalyticsExecs == AnalysisExecs \cup {InitExec}

Max(a, b) == IF a >= b THEN a ELSE b

AnalyticsRunning(rs) == Cardinality(rs \cap AnalyticsExecs)

\* set -e: a failing simple command ends the script.
Abort == pc' = "failed"

\* jobs create <j> ... 2>/dev/null || jobs update <j> ...: update runs only if create failed.
Updated(j, createOk, updateOk) ==
    IF ~createOk /\ updateOk THEN updatedJobs \cup {j} ELSE updatedJobs

PipelineInit ==
    /\ pc = "build"
    /\ race = 0
    /\ job = 0
    /\ running = {}
    /\ started = {}
    /\ completed = {}
    /\ gemma = "absent"
    /\ printed = FALSE
    /\ peak = 0
    /\ updatedJobs = {}
    /\ RenderIdle
    /\ BuilderIdle
    /\ ApiIdle
    /\ SelectorIdle /\ LapIdle /\ DragIdle

\* Step 1: gcloud builds submit ... || { echo "Build failed"; exit 1; }
Build ==
    /\ pc = "build"
    /\ \E ok \in BOOLEAN : pc' = IF ok THEN "create_init" ELSE "failed"
    /\ UNCHANGED <<race, job, running, started, completed, gemma, printed, peak>>
    /\ UNCHANGED <<updatedJobs, rvars, bvars, avars, svars, lvars, dvars>>

\* Step 2, Job 1: jobs create init-and-compute 2>/dev/null || jobs update init-and-compute
CreateInitJob ==
    /\ pc = "create_init"
    /\ \E createOk \in BOOLEAN, updateOk \in BOOLEAN :
          /\ IF createOk \/ updateOk
             THEN pc' = "create_analysis" /\ job' = 1
             ELSE Abort /\ job' = job
          /\ updatedJobs' = Updated(InitJob, createOk, updateOk)
    /\ UNCHANGED <<race, running, started, completed, gemma, printed, peak>>
    /\ UNCHANGED <<rvars, bvars, avars, svars, lvars, dvars>>

\* Step 2, Jobs 2-4: for job in section weather pattern; do create || update; done
CreateAnalysisJob ==
    /\ pc = "create_analysis"
    /\ \E createOk \in BOOLEAN, updateOk \in BOOLEAN :
          /\ IF createOk \/ updateOk
             THEN IF job < 3
                  THEN pc' = pc /\ job' = job + 1 /\ race' = race
                  ELSE pc' = "exec_init" /\ job' = 0 /\ race' = race
             ELSE Abort /\ job' = job /\ race' = race
          /\ updatedJobs' = Updated(AnalysisJobs[job], createOk, updateOk)
    /\ UNCHANGED <<running, started, completed, gemma, printed, peak>>
    /\ UNCHANGED <<rvars, bvars, avars, svars, lvars, dvars>>

\* gcloud run jobs execute <job> --wait: the execution starts ...
StartExec(e, at, waiting) ==
    /\ pc = at
    /\ pc' = waiting
    /\ running' = running \cup {e}
    /\ started' = started \cup {e}
    /\ peak' = Max(peak, AnalyticsRunning(running \cup {e}))
    /\ UNCHANGED <<race, job, completed, gemma, printed>>
    /\ UNCHANGED <<updatedJobs, rvars, bvars, avars, svars, lvars, dvars>>

\* Step 3, Job 1: gcloud run jobs execute init-and-compute --wait
StartInit == StartExec(InitExec, "exec_init", "wait_init")

\* FinishInit as it would be without set -e: a failed execution does not end the script.
FinishInit_NoErrexit ==
    /\ pc = "wait_init"
    /\ running' = running \ {InitExec}
    /\ \E ok \in BOOLEAN :
          /\ completed' = IF ok THEN completed \cup {InitExec} ELSE completed
          /\ pc' = "exec_analysis" /\ race' = 1 /\ job' = 1
    /\ UNCHANGED <<started, gemma, printed, peak>>
    /\ UNCHANGED <<updatedJobs, rvars, bvars, avars, svars, lvars, dvars>>

FinishInit ==
    /\ pc = "wait_init"
    /\ running' = running \ {InitExec}
    /\ \E ok \in BOOLEAN :
          IF ok
          THEN /\ completed' = completed \cup {InitExec}
               /\ pc' = "exec_analysis" /\ race' = 1 /\ job' = 1
          ELSE /\ Abort
               /\ UNCHANGED <<completed, race, job>>
    /\ UNCHANGED <<started, gemma, printed, peak>>
    /\ UNCHANGED <<updatedJobs, rvars, bvars, avars, svars, lvars, dvars>>

\* Step 3, Jobs 2-4: for race_id in {1..14}; do execute section; weather; pattern; done
StartAnalysis == StartExec(Exec(AnalysisJobs[job], race), "exec_analysis", "wait_analysis")

\* FinishAnalysis as it would be with a retry loop: a failed execution is executed again.
FinishAnalysis_Retry ==
    /\ pc = "wait_analysis"
    /\ running' = running \ {Exec(AnalysisJobs[job], race)}
    /\ \E ok \in BOOLEAN :
          IF ok
          THEN /\ completed' = completed \cup {Exec(AnalysisJobs[job], race)}
               /\ IF job < 3
                  THEN pc' = "exec_analysis" /\ job' = job + 1 /\ race' = race
                  ELSE IF race < NumRaces
                       THEN pc' = "exec_analysis" /\ job' = 1 /\ race' = race + 1
                       ELSE pc' = "deploy_gemma" /\ job' = 0 /\ race' = race
          ELSE /\ pc' = "exec_analysis"
               /\ UNCHANGED <<completed, race, job>>
    /\ UNCHANGED <<started, gemma, printed, peak>>
    /\ UNCHANGED <<updatedJobs, rvars, bvars, avars, svars, lvars, dvars>>

FinishAnalysis ==
    /\ pc = "wait_analysis"
    /\ running' = running \ {Exec(AnalysisJobs[job], race)}
    /\ \E ok \in BOOLEAN :
          IF ok
          THEN /\ completed' = completed \cup {Exec(AnalysisJobs[job], race)}
               /\ IF job < 3
                  THEN pc' = "exec_analysis" /\ job' = job + 1 /\ race' = race
                  ELSE IF race < NumRaces
                       THEN pc' = "exec_analysis" /\ job' = 1 /\ race' = race + 1
                       ELSE pc' = "deploy_gemma" /\ job' = 0 /\ race' = race
          ELSE /\ Abort
               /\ UNCHANGED <<completed, race, job>>
    /\ UNCHANGED <<started, gemma, printed, peak>>
    /\ UNCHANGED <<updatedJobs, rvars, bvars, avars, svars, lvars, dvars>>

\* Step 4: gcloud run deploy gemma3-inference ...
DeployGemma ==
    /\ pc = "deploy_gemma"
    /\ \E ok \in BOOLEAN :
          IF ok THEN pc' = "describe_gemma" /\ gemma' = "serving"
                ELSE Abort /\ gemma' = gemma
    /\ UNCHANGED <<race, job, running, started, completed, printed, peak>>
    /\ UNCHANGED <<updatedJobs, rvars, bvars, avars, svars, lvars, dvars>>

\* GEMMA_URL=$(gcloud run services describe gemma3-inference ...)
DescribeGemma ==
    /\ pc = "describe_gemma"
    /\ \E ok \in BOOLEAN : pc' = IF ok THEN "create_coaching" ELSE "failed"
    /\ UNCHANGED <<race, job, running, started, completed, gemma, printed, peak>>
    /\ UNCHANGED <<updatedJobs, rvars, bvars, avars, svars, lvars, dvars>>

\* Step 5: jobs create generate-coaching-insights 2>/dev/null || jobs update ...
CreateCoachingJob ==
    /\ pc = "create_coaching"
    /\ \E createOk \in BOOLEAN, updateOk \in BOOLEAN :
          /\ pc' = IF createOk \/ updateOk THEN "exec_coaching" ELSE "failed"
          /\ updatedJobs' = Updated(CoachingJob, createOk, updateOk)
    /\ UNCHANGED <<race, job, running, started, completed, gemma, printed, peak>>
    /\ UNCHANGED <<rvars, bvars, avars, svars, lvars, dvars>>

\* gcloud run jobs execute generate-coaching-insights --wait
StartCoaching == StartExec(CoachingExec, "exec_coaching", "wait_coaching")

FinishCoaching ==
    /\ pc = "wait_coaching"
    /\ running' = running \ {CoachingExec}
    /\ \E ok \in BOOLEAN :
          IF ok
          THEN completed' = completed \cup {CoachingExec} /\ pc' = "delete_gemma"
          ELSE Abort /\ completed' = completed
    /\ UNCHANGED <<race, job, started, gemma, printed, peak>>
    /\ UNCHANGED <<updatedJobs, rvars, bvars, avars, svars, lvars, dvars>>

\* Step 6: gcloud run services delete gemma3-inference --quiet, then the closing echoes
DeleteGemma ==
    /\ pc = "delete_gemma"
    /\ \E ok \in BOOLEAN :
          IF ok THEN pc' = "done" /\ gemma' = "deleted" /\ printed' = TRUE
                ELSE Abort /\ gemma' = gemma /\ printed' = printed
    /\ UNCHANGED <<race, job, running, started, completed, peak>>
    /\ UNCHANGED <<updatedJobs, rvars, bvars, avars, svars, lvars, dvars>>

Terminated == pc \in {"done", "failed"}

PipelineNext ==
    \/ Build
    \/ CreateInitJob
    \/ CreateAnalysisJob
    \/ StartInit
    \/ FinishInit
    \/ StartAnalysis
    \/ FinishAnalysis
    \/ DeployGemma
    \/ DescribeGemma
    \/ CreateCoachingJob
    \/ StartCoaching
    \/ FinishCoaching
    \/ DeleteGemma

PipelineSpec == PipelineInit /\ [][PipelineNext]_vars

\* C1: derived documents are not consumed before their writers have finished: an
\* analysis execution has started only if init-and-compute completed successfully,
\* and the coaching execution has started only if init-and-compute and all 42
\* analysis executions completed successfully.
C1_WritersFinishBeforeReaders ==
    /\ (started \cap AnalysisExecs # {}) => InitExec \in completed
    /\ (CoachingExec \in started) => (AnalyticsExecs \subseteq completed)

C1_Witness_CoachingStarted ==
    /\ CoachingExec \in running
    /\ Cardinality(completed) = 1 + 3 * NumRaces

\* C2: the four analytics jobs run in parallel: a run of the pipeline that reaches
\* its end has had two analytics job executions in progress at the same time.
C2_AnalyticsRunInParallel == (pc = "done") => (peak >= 2)

\* C3: if the gemma3-inference service was deployed, it has been deleted by the
\* time the script terminates, whether the coaching job succeeded or failed.
C3_GemmaDeletedAtExit == (Terminated /\ gemma # "absent") => (gemma = "deleted")

\* The executions that were started and ended without completing successfully.
FailedExecs == started \ (completed \cup running)

AllExecs == AnalyticsExecs \cup {CoachingExec}

\* C20: the script stops at the first failure and never retries. At most one execution
\* has failed, and then the script has ended with nothing in progress; a failed analytics
\* execution leaves the Gemma service undeployed; "PIPELINE COMPLETE" is printed only when
\* all 44 executions completed; once the script has failed it takes no further step, and
\* no execution is ever started a second time. A failed 'jobs create' followed by a
\* successful 'jobs update' does not end the script.
C20_StopsAtFirstFailure ==
    /\ [](/\ Cardinality(FailedExecs) <= 1
          /\ (FailedExecs # {}) => (pc = "failed" /\ running = {})
          /\ (FailedExecs \cap AnalyticsExecs # {}) => (gemma = "absent")
          /\ (pc = "failed") => ~printed
          /\ printed => (completed = AllExecs /\ pc = "done"))
    /\ [][/\ pc # "failed"
          /\ \A e \in started : (e \in running') => (e \in running)
          /\ (updatedJobs' # updatedJobs) => (pc' # "failed")]_vars

C20_Witness_FailureAfterUpdate ==
    /\ pc = "failed"
    /\ updatedJobs # {}
    /\ FailedExecs # {}
    /\ FailedExecs \subseteq AnalysisExecs
    /\ completed # {}
    /\ ~printed

----------------------------------------------------------------------------
(* JavaScript values of the time fields: a number of milliseconds, undefined, NaN *)

MaxTime == 2

TimeStep == 750

Undefined == [t |-> "undefined", v |-> 0]

NaN == [t |-> "NaN", v |-> 0]

Num(n) == [t |-> "number", v |-> n]

IsNum(x) == x.t = "number"

\* A time field as the API may deliver it: absent, or a whole number of milliseconds.
TimeValues == {Undefined} \cup {Num(k * TimeStep) : k \in 1..MaxTime}

\* (x || 0)
OrZero(x) == IF IsNum(x) /\ x.v # 0 THEN x.v ELSE 0

\* a - b on numbers; undefined - b and a - undefined are NaN
JsMinus(a, b) == IF IsNum(a) /\ IsNum(b) THEN Num(a.v - b.v) ELSE NaN

Abs(n) == IF n < 0 THEN 0 - n ELSE n

\* (ms / 1000).toFixed(3) of a whole number of milliseconds: sign, seconds, thousandths
ToFixed3(n) == [nan |-> FALSE, neg |-> n < 0, whole |-> Abs(n) \div 1000, frac |-> Abs(n) % 1000]

NaNText == [nan |-> TRUE, neg |-> FALSE, whole |-> 0, frac |-> 0]

\* The number a toFixed(3) text of seconds denotes, in milliseconds.
FixedValue(f) == (IF f.neg THEN 0 - 1 ELSE 1) * (f.whole * 1000 + f.frac)

\* A rendered gap: "-" or an optional "+", the seconds and the css class.
DashGap == [dash |-> TRUE, plus |-> FALSE, text |-> NaNText, cls |-> ""]

NumGap(n) ==
    [dash |-> FALSE, plus |-> n > 0, text |-> ToFixed3(n),
     cls |-> IF n > 0 THEN "gap-positive" ELSE IF n < 0 THEN "gap-negative" ELSE ""]

----------------------------------------------------------------------------
(* SectionPanel.jsx *)

\* const formatTime = (ms) => (ms / 1000).toFixed(3);
SectionFormatTime(x) == IF IsNum(x) THEN ToFixed3(x.v) ELSE NaNText

\* const Gap = ({ value }) => ...   (null is passed as Undefined: both render "-")
Gap(value) == IF ~IsNum(value) THEN DashGap ELSE NumGap(value.v)

\* The value handed to <Gap> in the "Optimal (All Drivers)" row, with the operands swapped.
OptimalGapValue_Swapped(section) == JsMinus(section.best_possible_time_ms, section.driver_time_ms)

\* <Gap value={driverTime - bestPossibleTime} />
OptimalGapValue(section) == JsMinus(section.driver_time_ms, section.best_possible_time_ms)

\* <Gap value={driverTime - bestLapTime} />
BestLapGapValue(section) == JsMinus(section.driver_time_ms, section.best_lap_time_ms)

NoRow == [time |-> NaNText, gap |-> DashGap]

SectionPanel(p) ==
    IF p.isComposite
    THEN [mode |-> "composite",
          current |-> [time |-> SectionFormatTime(p.section.driver_time_ms), gap |-> DashGap],
          best |-> NoRow,
          optimal |-> NoRow]
    ELSE [mode |-> "regular",
          current |-> [time |-> SectionFormatTime(p.section.driver_time_ms), gap |-> Gap(Undefined)],
          best |-> [time |-> SectionFormatTime(p.section.best_lap_time_ms),
                    gap |-> Gap(BestLapGapValue(p.section))],
          optimal |-> [time |-> SectionFormatTime(p.section.best_possible_time_ms),
                       gap |-> Gap(OptimalGapValue(p.section))]]

SectionPanelProps ==
    [section : [driver_time_ms : TimeValues, best_lap_time_ms : TimeValues,
                best_possible_time_ms : TimeValues],
     isComposite : BOOLEAN]

----------------------------------------------------------------------------
(* TotalLapTimeComparison.jsx *)

MaxSections == 2

MaxBestCase == 2

\* formatTime: minutes, and the seconds with three decimals
TotalFormatTime(ms) ==
    [minutes |-> ms \div 60000, seconds |-> ToFixed3(ms % 60000), padded |-> (ms \div 60000) > 0]

\* formatGap
FormatGap(ms) == NumGap(ms)

\* sections.reduce((sum, section) => sum + (section[field] || 0), 0)
RECURSIVE ReduceFrom(_, _, _, _)
ReduceFrom(list, field, i, sum) ==
    IF i > Len(list) THEN sum
    ELSE ReduceFrom(list, field, i + 1, sum + OrZero(list[i][field]))

DriverTotalTime(p) == ReduceFrom(p.sections, "driver_time_ms", 1, 0)

\* The optimal total without the best-case branch: always the fallback.
OptimalTotalTime_FallbackOnly(p) ==
    IF p.isComposite THEN ReduceFrom(p.sections, "driver_time_ms", 1, 0)
    ELSE ReduceFrom(p.sections, "best_possible_time_ms", 1, 0)

OptimalTotalTime(p) ==
    IF p.isComposite THEN ReduceFrom(p.sections, "driver_time_ms", 1, 0)
    ELSE IF Len(p.bestCaseSections) > 0
         THEN ReduceFrom(p.bestCaseSections, "best_time_ms", 1, 0)
         ELSE ReduceFrom(p.sections, "best_possible_time_ms", 1, 0)

TotalLapTimeComparison(p) ==
    LET driverTotalTime == DriverTotalTime(p)
        optimalTotalTime == OptimalTotalTime(p)
        timeGap == driverTotalTime - optimalTotalTime
    IN  [shown |-> ~(driverTotalTime = 0 /\ optimalTotalTime = 0),
         rows |-> IF driverTotalTime = 0 /\ optimalTotalTime = 0 THEN {}
                  ELSE {"Driver Total Lap Time", "Optimal (Composite) Total Lap Time", "Gap"},
         driverTotalTime |-> driverTotalTime,
         optimalTotalTime |-> optimalTotalTime,
         timeGap |-> timeGap,
         driverShown |-> TotalFormatTime(driverTotalTime),
         optimalShown |-> TotalFormatTime(optimalTotalTime),
         gapShown |-> FormatGap(timeGap)]

SeqsUpTo(S, lo, hi) == UNION {[1..n -> S] : n \in lo..hi}

\* LapReview renders the comparison only for a non-empty section list.
TotalProps ==
    [sections : SeqsUpTo([driver_time_ms : TimeValues, best_possible_time_ms : TimeValues],
                         1, MaxSections),
     bestCaseSections : SeqsUpTo([best_time_ms : TimeValues], 0, MaxBestCase),
     isComposite : BOOLEAN]

----------------------------------------------------------------------------
(* useApi (hooks/useApi.js) as used by DraggableRecommendationPanel *)

MaxRequests == 3

\* An id prop is null (0) or names one entity.
Ids == {0, 1}

RecommendationTypes == {"section", "weather", "pattern", "coaching"}

\* LapReview passes a lapSectionId only for the 'section' type.
PanelPropsSet ==
    {q \in [recommendationType : RecommendationTypes, lapSectionId : Ids,
            raceId : Ids, vehicleId : Ids] :
        q.recommendationType # "section" => q.lapSectionId = 0}

NullEndpoint == <<"null", 0, 0>>

\* Before the first run of the effect there is no previous endpoint.
NoEndpointYet == <<"unset", 0, 0>>

\* After the component has unmounted the effect runs no more.
Unmounted == <<"unmounted", 0, 0>>

\* const endpoint = recommendationType === 'section' && lapSectionId ? ... : null
Endpoint(q) ==
    IF q.recommendationType = "section" /\ q.lapSectionId # 0
    THEN <<"sections", q.lapSectionId, 0>>
    ELSE IF q.recommendationType = "weather" /\ q.raceId # 0
    THEN <<"weather-impact", q.raceId, 0>>
    ELSE IF q.recommendationType = "pattern" /\ q.raceId # 0 /\ q.vehicleId # 0
    THEN <<"pattern-analysis", q.raceId, q.vehicleId>>
    ELSE IF q.recommendationType = "coaching" /\ q.raceId # 0 /\ q.vehicleId # 0
    THEN <<"coaching-insights", q.raceId, q.vehicleId>>
    ELSE NullEndpoint

\* Response bodies: null, [], an object that is not an array, a non-empty array.
Bodies == {"null", "empty_list", "object", "list"}

\* recommendations && Array.isArray(recommendations) && recommendations.length > 0
HasRecommendation(d) == d = "list"

\* What the panel shows of the hook's state: the four top-level blocks of the content box.
PanelFrame(isLoading, err, d) ==
    [loadingShown |-> isLoading,
     errorShown |-> err # "null",
     contentShown |-> HasRecommendation(d),
     emptyShown |-> ~isLoading /\ err = "null" /\ ~HasRecommendation(d)]

ApiInit ==
    /\ panelProps \in PanelPropsSet
    /\ effectFor = NoEndpointYet
    /\ data = "null"
    /\ loading = FALSE
    /\ error = "null"
    /\ inflight = {}
    /\ nextId = 1
    /\ lastResponse = [endpoint |-> NullEndpoint, ok |-> FALSE, body |-> "null"]
    /\ cancelled = 0
    /\ PipelineIdle
    /\ RenderIdle
    /\ BuilderIdle
    /\ SelectorIdle /\ LapIdle /\ DragIdle

Mounted == effectFor # Unmounted

EffectPending == Mounted /\ effectFor # Endpoint(panelProps)

\* The parent re-renders the panel with other props (pending effects are flushed first).
SetPanelProps ==
    /\ Mounted
    /\ ~EffectPending
    /\ \E q \in PanelPropsSet : q # panelProps /\ panelProps' = q
    /\ UNCHANGED <<effectFor, data, loading, error, inflight, nextId, lastResponse, cancelled>>
    /\ UNCHANGED <<pvars, rvars, bvars, svars, lvars, dvars>>

\* return () => { controller.abort(); }
Aborted(reqs) == {[r EXCEPT !.aborted = TRUE] : r \in reqs}

\* The effect without its cleanup: the request of the previous run is not aborted.
RunEffect_NoAbort ==
    /\ EffectPending
    /\ effectFor' = Endpoint(panelProps)
    /\ IF Endpoint(panelProps) = NullEndpoint
       THEN /\ data' = "null"
            /\ inflight' = inflight
            /\ UNCHANGED <<loading, error, nextId>>
       ELSE /\ nextId <= MaxRequests
            /\ loading' = TRUE
            /\ error' = "null"
            /\ inflight' = inflight
                             \cup {[id |-> nextId, endpoint |-> Endpoint(panelProps), aborted |-> FALSE]}
            /\ nextId' = nextId + 1
            /\ UNCHANGED data
    /\ UNCHANGED <<panelProps, lastResponse, cancelled>>
    /\ UNCHANGED <<pvars, rvars, bvars, svars, lvars, dvars>>

\* useEffect(..., [endpoint]): the cleanup of the previous run, then the effect body.
RunEffect ==
    /\ EffectPending
    /\ effectFor' = Endpoint(panelProps)
    /\ IF Endpoint(panelProps) = NullEndpoint
       THEN /\ data' = "null"
            /\ inflight' = Aborted(inflight)
            /\ UNCHANGED <<loading, error, nextId>>
       ELSE /\ nextId <= MaxRequests
            /\ loading' = TRUE
            /\ error' = "null"
            /\ inflight' = Aborted(inflight)
                             \cup {[id |-> nextId, endpoint |-> Endpoint(panelProps), aborted |-> FALSE]}
            /\ nextId' = nextId + 1
            /\ UNCHANGED data
    /\ UNCHANGED <<panelProps, lastResponse, cancelled>>
    /\ UNCHANGED <<pvars, rvars, bvars, svars, lvars, dvars>>

\* The panel is closed (onClose, or the parent stops rendering it): the cleanup aborts.
Unmount ==
    /\ Mounted
    /\ ~EffectPending
    /\ effectFor' = Unmounted
    /\ inflight' = Aborted(inflight)
    /\ UNCHANGED <<panelProps, data, loading, error, nextId, lastResponse, cancelled>>
    /\ UNCHANGED <<pvars, rvars, bvars, svars, lvars, dvars>>

\* try { response = await axios.get(...); setData(response.data) } finally { setLoading(false) }
RespondSuccess ==
    \E r \in inflight : \E body \in Bodies :
        /\ ~r.aborted
        /\ data' = body
        /\ loading' = FALSE
        /\ inflight' = inflight \ {r}
        /\ lastResponse' = [endpoint |-> r.endpoint, ok |-> TRUE, body |-> body]
        /\ UNCHANGED <<panelProps, effectFor, error, nextId, cancelled>>
        /\ UNCHANGED <<pvars, rvars, bvars, svars, lvars, dvars>>

\* catch (err) { ... setError(err.response?.data?.detail || 'Failed to fetch data.') } finally ...
RespondFailure ==
    \E r \in inflight :
        /\ ~r.aborted
        /\ error' = "error"
        /\ loading' = FALSE
        /\ inflight' = inflight \ {r}
        /\ lastResponse' = [endpoint |-> r.endpoint, ok |-> FALSE, body |-> "null"]
        /\ UNCHANGED <<panelProps, effectFor, data, nextId, cancelled>>
        /\ UNCHANGED <<pvars, rvars, bvars, svars, lvars, dvars>>

\* The catch block without the axios.isCancel test: a cancellation is reported as an error.
SettleCancelled_AsError ==
    \E r \in inflight :
        /\ r.aborted
        /\ error' = "error"
        /\ loading' = FALSE
        /\ inflight' = inflight \ {r}
        /\ cancelled' = cancelled + 1
        /\ UNCHANGED <<panelProps, effectFor, data, nextId, lastResponse>>
        /\ UNCHANGED <<pvars, rvars, bvars, svars, lvars, dvars>>

\* catch (err) { if (axios.isCancel(err)) { /* do nothing */ } } finally { setLoading(false) }
SettleCancelled ==
    \E r \in inflight :
        /\ r.aborted
        /\ loading' = FALSE
        /\ inflight' = inflight \ {r}
        /\ cancelled' = cancelled + 1
        /\ UNCHANGED <<panelProps, effectFor, data, error, nextId, lastResponse>>
        /\ UNCHANGED <<pvars, rvars, bvars, svars, lvars, dvars>>

ApiNext ==
    \/ SetPanelProps
    \/ RunEffect
    \/ Unmount
    \/ RespondSuccess
    \/ RespondFailure
    \/ SettleCancelled

ApiSpec == ApiInit /\ [][ApiNext]_vars

----------------------------------------------------------------------------
(* DraggableRecommendationPanel: the content shown for a weather or pattern document *)

\* recommendation_text: absent, '', a narrative, or the basic summary that the weather
\* branch filters out ("Air temperature averaged ...").
TextKinds == {"undefined", "empty", "narrative", "basic_summary"}

WeatherNumbers ==
    {"avg_air_temp_celsius", "min_air_temp_celsius", "max_air_temp_celsius",
     "avg_track_temp_celsius", "avg_humidity_percent", "avg_wind_speed", "max_wind_speed"}

\* A weather recommendation document: weather_summary is the set of its fields present.
WeatherDocs ==
    {d \in [recommendation_text : TextKinds, structured_data : {"undefined", "object"},
            data_points : BOOLEAN, weather_summary : SUBSET WeatherNumbers,
            rain_detected : {"undefined", "false", "true"}, confidence_score : BOOLEAN] :
        d.data_points => d.structured_data = "object"}

PatternStats ==
    {"lap_count", "mean_lap_time_s", "std_lap_time_s", "consistency_score",
     "min_lap_time_s", "max_lap_time_s"}

NoStats == [f \in PatternStats |-> "undefined"]

AllStats == [f \in PatternStats |-> "positive"]

\* A pattern recommendation document: structured_data.consistency_analysis holds each
\* statistic absent, as 0 or as a positive number; structured_data itself may repeat them.
PatternDocs ==
    {d \in [recommendation_text : TextKinds, structured_data : {"undefined", "object"},
            consistency_analysis : [PatternStats -> {"undefined", "zero", "positive"}],
            data_level : {NoStats, AllStats},
            trends : BOOLEAN, strengths : BOOLEAN, confidence_score : BOOLEAN] :
        d.structured_data = "undefined" => (d.consistency_analysis = NoStats /\ d.data_level = NoStats)}

\* recommendation.recommendation_text && .trim() && !includes(...) && !includes(...)
WeatherNarrativeShown(d) == d.structured_data = "object" /\ d.recommendation_text = "narrative"

\* The outer test of the "Weather Conditions" block.
WeatherBlockShown(d) ==
    /\ d.structured_data = "object"
    /\ \/ "avg_air_temp_celsius" \in d.weather_summary
       \/ "avg_humidity_percent" \in d.weather_summary
       \/ "avg_wind_speed" \in d.weather_summary

WeatherNumberShown(d, f) ==
    /\ WeatherBlockShown(d)
    /\ f \in d.weather_summary
    /\ (f \in {"min_air_temp_celsius", "max_air_temp_celsius"}) =>
           {"avg_air_temp_celsius", "min_air_temp_celsius", "max_air_temp_celsius"} \subseteq d.weather_summary
    /\ (f = "max_wind_speed") => "avg_wind_speed" \in d.weather_summary

WeatherContent(d) ==
    [narrativeShown |-> WeatherNarrativeShown(d),
     numbers |-> [f \in WeatherNumbers \cup {"data_points"} |->
                    IF f = "data_points"
                    THEN (IF d.structured_data = "object" /\ d.data_points THEN "value" ELSE "hidden")
                    ELSE (IF WeatherNumberShown(d, f) THEN "value" ELSE "hidden")],
     blocks |-> {"chip"}
                \cup (IF WeatherNarrativeShown(d) THEN {"Weather Impact Analysis"} ELSE {})
                \cup (IF WeatherBlockShown(d) THEN {"Weather Conditions"} ELSE {})
                \cup (IF WeatherBlockShown(d) /\ d.rain_detected = "false" THEN {"Rain"} ELSE {})
                \cup (IF d.confidence_score THEN {"AI Confidence"} ELSE {})]

\* consistencyAnalysis.f || data.f
StatOr(d, f) ==
    IF d.consistency_analysis[f] = "positive" THEN "positive" ELSE d.data_level[f]

StatDefined(d, f) == d.consistency_analysis[f] # "undefined" \/ d.data_level[f] # "undefined"

\* How one statistic appears: not at all, with a value, or as the text "undefined"/"NaN".
PatternStatShown(d, f) ==
    IF d.structured_data # "object" THEN "hidden"
    ELSE IF f = "consistency_score"
    THEN (IF StatDefined(d, f) THEN "value" ELSE "hidden")
    ELSE IF f \in {"min_lap_time_s", "max_lap_time_s"}
    THEN (IF \/ (d.consistency_analysis["min_lap_time_s"] # "undefined"
                   /\ d.consistency_analysis["max_lap_time_s"] # "undefined")
             \/ (d.data_level["min_lap_time_s"] # "undefined"
                   /\ d.data_level["max_lap_time_s"] # "undefined")
          THEN (IF StatOr(d, f) = "undefined" THEN "garbled" ELSE "value")
          ELSE "hidden")
    ELSE (IF StatDefined(d, f)
          THEN (IF StatOr(d, f) = "undefined" THEN "garbled" ELSE "value")
          ELSE "hidden")

PatternContent(d) ==
    [narrativeShown |-> FALSE,
     numbers |-> [f \in PatternStats |-> PatternStatShown(d, f)],
     blocks |-> {"chip"}
                \cup (IF d.structured_data = "object" THEN {"Performance Metrics"} ELSE {})
                \cup (IF d.structured_data = "object" /\ d.trends THEN {"Trends"} ELSE {})
                \cup (IF d.structured_data = "object" /\ d.strengths THEN {"Strengths"} ELSE {})
                \cup (IF d.structured_data = "object" /\ ~d.strengths /\ ~d.trends
                      THEN {"For more detailed coaching insights"} ELSE {})
                \cup (IF d.confidence_score THEN {"AI Confidence"} ELSE {})]

\* The panel for a hook state { data: [recommendation], loading: false, error: null }.
DraggableRecommendationPanel(q) ==
    [frame |-> PanelFrame(FALSE, "null", "list"),
     content |-> IF q.recommendationType = "weather" THEN WeatherContent(q.recommendation)
                 ELSE PatternContent(q.recommendation)]

RecommendationPanelProps ==
    [recommendationType : {"weather"}, recommendation : WeatherDocs]
    \cup [recommendationType : {"pattern"}, recommendation : PatternDocs]

----------------------------------------------------------------------------
(* One render of a component with props drawn from its prop sets *)

RenderInit ==
    /\ \/ component = "SectionPanel" /\ props \in SectionPanelProps
       \/ component = "TotalLapTimeComparison" /\ props \in TotalProps
       \/ component = "DraggableRecommendationPanel" /\ props \in RecommendationPanelProps
    /\ rendered = FALSE
    /\ view = "none"
    /\ PipelineIdle
    /\ BuilderIdle
    /\ ApiIdle
    /\ SelectorIdle /\ LapIdle /\ DragIdle

RenderSectionPanel ==
    /\ component = "SectionPanel"
    /\ ~rendered
    /\ view' = SectionPanel(props)
    /\ rendered' = TRUE
    /\ UNCHANGED <<component, props>>
    /\ UNCHANGED <<pvars, bvars, avars, svars, lvars, dvars>>

RenderTotalLapTimeComparison ==
    /\ component = "TotalLapTimeComparison"
    /\ ~rendered
    /\ view' = TotalLapTimeComparison(props)
    /\ rendered' = TRUE
    /\ UNCHANGED <<component, props>>
    /\ UNCHANGED <<pvars, bvars, avars, svars, lvars, dvars>>

RenderRecommendationPanel ==
    /\ component = "DraggableRecommendationPanel"
    /\ ~rendered
    /\ view' = DraggableRecommendationPanel(props)
    /\ rendered' = TRUE
    /\ UNCHANGED <<component, props>>
    /\ UNCHANGED <<pvars, bvars, avars, svars, lvars, dvars>>

RenderNext ==
    \/ RenderSectionPanel
    \/ RenderTotalLapTimeComparison
    \/ RenderRecommendationPanel

RenderSpec == RenderInit /\ [][RenderNext]_vars

----------------------------------------------------------------------------
(* The best-case composite builder (tools/pipeline/run_init_and_compute.py is not  *)
(* part of the sources; modelled from sections 3, 4.1 and 7 of the specification)  *)

MaxRecords == 3

MaxRuns == 2

BuilderRaces == {1, 2}

Drivers == {"A", "B"}

SectionNames == {"S1", "S2"}

\* A section-time record; its lap is its row number. The time is absent when the
\* section was not recorded for that lap.
RawRecords == [driver : Drivers, section_name : SectionNames,
               time : {Undefined, Num(TimeStep), Num(2 * TimeStep)}]

ValidTime(t) == IsNum(t) /\ t.v > 0

NoObservation == [observed |-> FALSE, best_time_ms |-> 0, driver |-> "", lap |-> 0]

\* The builder taking the slowest instead of the fastest time of a section.
ScanRow_Max(acc, rows, i) ==
    LET row == rows[i]
        cur == acc[row.section_name]
    IN  IF ValidTime(row.time) /\ (~cur.observed \/ row.time.v > cur.best_time_ms)
        THEN [acc EXCEPT ![row.section_name] =
                 [observed |-> TRUE, best_time_ms |-> row.time.v, driver |-> row.driver, lap |-> i]]
        ELSE acc

\* One row of the scan: a valid time below the section's minimum so far replaces it.
ScanRow(acc, rows, i) ==
    LET row == rows[i]
        cur == acc[row.section_name]
    IN  IF ValidTime(row.time) /\ (~cur.observed \/ row.time.v < cur.best_time_ms)
        THEN [acc EXCEPT ![row.section_name] =
                 [observed |-> TRUE, best_time_ms |-> row.time.v, driver |-> row.driver, lap |-> i]]
        ELSE acc

RECURSIVE Scan(_, _, _)
Scan(acc, rows, i) == IF i > Len(rows) THEN acc ELSE Scan(ScanRow(acc, rows, i), rows, i + 1)

RECURSIVE SumMinimums(_, _)
SumMinimums(mins, names) ==
    IF names = {} THEN 0
    ELSE LET n == CHOOSE x \in names : TRUE
         IN  (IF mins[n].observed THEN mins[n].best_time_ms ELSE 0) + SumMinimums(mins, names \ {n})

\* Input: all records of one race. Output: per section the minimum and who set it, the
\* sum of the minimums, and the partial flag when a section has no valid observation.
BuildComposite(rows) ==
    LET mins == Scan([n \in SectionNames |-> NoObservation], rows, 1)
    IN  [sections |-> mins,
         total_ms |-> SumMinimums(mins, SectionNames),
         partial |-> \E n \in SectionNames : ~mins[n].observed]

\* An incremental store: a rerun adds the new total to the stored one.
StoreComposite_Accumulate(store, r, doc) ==
    IF runs[r] = 0 THEN [store EXCEPT ![r] = doc]
    ELSE [store EXCEPT ![r] = [doc EXCEPT !.total_ms = store[r].total_ms + doc.total_ms]]

\* The derived record is regenerated wholesale; there is no incremental update.
StoreComposite(store, r, doc) == [store EXCEPT ![r] = doc]

\* The records of the two races, at most MaxRecords rows in all.
BuilderInit ==
    /\ \E n1 \in 0..MaxRecords : \E n2 \in 0..(MaxRecords - n1) :
          \E rows1 \in [1..n1 -> RawRecords], rows2 \in [1..n2 -> RawRecords] :
             raw = [r \in BuilderRaces |-> IF r = 1 THEN rows1 ELSE rows2]
    /\ composites = [r \in BuilderRaces |-> "none"]
    /\ runs = [r \in BuilderRaces |-> 0]
    /\ PipelineIdle
    /\ RenderIdle
    /\ ApiIdle
    /\ SelectorIdle /\ LapIdle /\ DragIdle

\* One batch run for one race: read the race's records, compute, write, exit.
ProcessRace(r) ==
    /\ runs[r] < MaxRuns
    /\ composites' = StoreComposite(composites, r, BuildComposite(raw[r]))
    /\ runs' = [runs EXCEPT ![r] = @ + 1]
    /\ UNCHANGED raw
    /\ UNCHANGED <<pvars, rvars, avars, svars, lvars, dvars>>

BuilderNext == \E r \in BuilderRaces : ProcessRace(r)

BuilderSpec == BuilderInit /\ [][BuilderNext]_vars

----------------------------------------------------------------------------
(* RaceSelector inside LapReview, with RecommendationToggle and the recommendation panel *)

\* Option values of the selects; '' is 0.
TrackIds == {1, 2}

RaceIds == {1, 2}

DriverIds == {1}

LapIds == {1}

\* selection === null
NullSelection ==
    [some |-> FALSE, trackId |-> 0, raceId |-> 0, driverId |-> 0, lapId |-> 0, isComposite |-> FALSE]

\* onSelectionChange({trackId, raceId: selectedRace || null, driverId: null, lapId: null, isComposite: true})
CompositeSelection ==
    [some |-> TRUE, trackId |-> selectedTrack, raceId |-> selectedRace, driverId |-> 0,
     lapId |-> 0, isComposite |-> TRUE]

\* onSelectionChange({trackId, raceId, driverId, lapId, lapNumber, isComposite: false})
LapSelection ==
    [some |-> TRUE, trackId |-> selectedTrack, raceId |-> selectedRace, driverId |-> selectedDriver,
     lapId |-> selectedLap, isComposite |-> FALSE]

SelectorInit ==
    /\ selectedTrack = 0 /\ selectedRace = 0 /\ selectedDriver = 0 /\ selectedLap = 0
    /\ isComposite = FALSE
    /\ selection = NullSelection
    /\ activeRecommendationType = "null"
    /\ notifyPending = TRUE
    /\ lastChange = "none"
    /\ PipelineIdle /\ RenderIdle /\ BuilderIdle /\ ApiIdle /\ LapIdle /\ DragIdle

HandleTrackChange ==
    /\ ~notifyPending
    /\ \E newTrackId \in TrackIds \cup {0} :
          /\ newTrackId # selectedTrack
          /\ selectedTrack' = newTrackId
    /\ selectedRace' = 0
    /\ selectedDriver' = 0
    /\ selectedLap' = 0
    /\ isComposite' = FALSE
    /\ selection' = NullSelection
    /\ notifyPending' = TRUE
    /\ lastChange' = "track"
    /\ UNCHANGED activeRecommendationType
    /\ UNCHANGED <<pvars, rvars, bvars, avars, lvars, dvars>>

\* handleRaceChange as it would be without its onSelectionChange(null) call.
HandleRaceChange_NoClear ==
    /\ ~notifyPending
    /\ selectedTrack # 0
    /\ \E newRaceId \in RaceIds \cup {0} :
          /\ newRaceId # selectedRace
          /\ selectedRace' = newRaceId
    /\ selectedDriver' = 0
    /\ selectedLap' = 0
    /\ isComposite' = FALSE
    /\ notifyPending' = TRUE
    /\ lastChange' = "race"
    /\ UNCHANGED <<selectedTrack, selection, activeRecommendationType>>
    /\ UNCHANGED <<pvars, rvars, bvars, avars, lvars, dvars>>

HandleRaceChange ==
    /\ ~notifyPending
    /\ selectedTrack # 0
    /\ \E newRaceId \in RaceIds \cup {0} :
          /\ newRaceId # selectedRace
          /\ selectedRace' = newRaceId
    /\ selectedDriver' = 0
    /\ selectedLap' = 0
    /\ isComposite' = FALSE
    /\ selection' = NullSelection
    /\ notifyPending' = TRUE
    /\ lastChange' = "race"
    /\ UNCHANGED <<selectedTrack, activeRecommendationType>>
    /\ UNCHANGED <<pvars, rvars, bvars, avars, lvars, dvars>>

\* handleDriverChange with value 'composite'
HandleDriverChangeComposite ==
    /\ ~notifyPending
    /\ selectedTrack # 0
    /\ ~isComposite
    /\ isComposite' = TRUE
    /\ selectedDriver' = 0
    /\ selectedLap' = 0
    /\ notifyPending' = TRUE
    /\ lastChange' = "driver"
    /\ UNCHANGED <<selectedTrack, selectedRace, selection, activeRecommendationType>>
    /\ UNCHANGED <<pvars, rvars, bvars, avars, lvars, dvars>>

\* handleDriverChange with a driver id (offered once a race is selected) or ''
HandleDriverChange ==
    /\ ~notifyPending
    /\ selectedTrack # 0
    /\ \E value \in (IF selectedRace # 0 THEN DriverIds ELSE {}) \cup {0} :
          /\ isComposite \/ value # selectedDriver
          /\ selectedDriver' = value
    /\ isComposite' = FALSE
    /\ selectedLap' = 0
    /\ selection' = NullSelection
    /\ notifyPending' = TRUE
    /\ lastChange' = "driver"
    /\ UNCHANGED <<selectedTrack, selectedRace, activeRecommendationType>>
    /\ UNCHANGED <<pvars, rvars, bvars, avars, lvars, dvars>>

HandleLapChange ==
    /\ ~notifyPending
    /\ ~isComposite
    /\ selectedDriver # 0
    /\ \E lapId \in LapIds \cup {0} :
          /\ lapId # selectedLap
          /\ selectedLap' = lapId
    /\ notifyPending' = TRUE
    /\ lastChange' = "lap"
    /\ UNCHANGED <<selectedTrack, selectedRace, selectedDriver, isComposite, selection,
                   activeRecommendationType>>
    /\ UNCHANGED <<pvars, rvars, bvars, avars, lvars, dvars>>

\* useEffect(..., [selectedTrack, ..., isComposite, raceContext, tracks, ...])
NotifyEffect ==
    /\ notifyPending
    /\ notifyPending' = FALSE
    /\ selection' =
          IF isComposite /\ selectedTrack # 0
          THEN CompositeSelection
          ELSE IF selectedTrack # 0 /\ selectedRace # 0 /\ selectedDriver # 0 /\ selectedLap # 0
               THEN LapSelection
               ELSE selection
    /\ UNCHANGED <<selectedTrack, selectedRace, selectedDriver, selectedLap, isComposite,
                   activeRecommendationType, lastChange>>
    /\ UNCHANGED <<pvars, rvars, bvars, avars, lvars, dvars>>

\* A response for /api/tracks or the race context arrives: the effect's dependencies change.
SelectorDataArrives ==
    /\ ~notifyPending
    /\ notifyPending' = TRUE
    /\ UNCHANGED <<selectedTrack, selectedRace, selectedDriver, selectedLap, isComposite,
                   selection, activeRecommendationType, lastChange>>
    /\ UNCHANGED <<pvars, rvars, bvars, avars, lvars, dvars>>

\* LapReview: the toggle is rendered when trackId && (lapId || isComposite), and is
\* disabled when isComposite || !lapId.
ToggleEnabled ==
    /\ selection.some
    /\ selection.trackId # 0 \/ selectedTrack # 0
    /\ selection.lapId # 0
    /\ ~selection.isComposite

\* RecommendationToggle.handleTypeChange: if (newType !== null) onTypeChange(newType)
HandleTypeChange ==
    /\ ~notifyPending
    /\ ToggleEnabled
    /\ \E newType \in RecommendationTypes :
          /\ newType # activeRecommendationType
          /\ activeRecommendationType' = newType
    /\ UNCHANGED <<selectedTrack, selectedRace, selectedDriver, selectedLap, isComposite,
                   selection, notifyPending, lastChange>>
    /\ UNCHANGED <<pvars, rvars, bvars, avars, lvars, dvars>>

\* onClose={() => setActiveRecommendationType(null)}
ClosePanel ==
    /\ ~notifyPending
    /\ activeRecommendationType # "null"
    /\ activeRecommendationType' = "null"
    /\ UNCHANGED <<selectedTrack, selectedRace, selectedDriver, selectedLap, isComposite,
                   selection, notifyPending, lastChange>>
    /\ UNCHANGED <<pvars, rvars, bvars, avars, lvars, dvars>>

\* {activeRecommendationType && (<DraggableRecommendationPanel ... />)}
PanelDisplayed == activeRecommendationType # "null"

\* The endpoint of the displayed panel: raceId and vehicleId come from the selection, and
\* a lap section id exists only for the sections of a selected lap.
PanelEndpoint ==
    IF PanelDisplayed
    THEN Endpoint([recommendationType |-> activeRecommendationType,
                   lapSectionId |-> IF selection.some /\ ~selection.isComposite THEN 1 ELSE 0,
                   raceId |-> selection.raceId,
                   vehicleId |-> selection.driverId])
    ELSE NullEndpoint

SelectorNext ==
    \/ HandleTrackChange
    \/ HandleRaceChange
    \/ HandleDriverChangeComposite
    \/ HandleDriverChange
    \/ HandleLapChange
    \/ NotifyEffect
    \/ SelectorDataArrives
    \/ HandleTypeChange
    \/ ClosePanel

SelectorSpec == SelectorInit /\ [][SelectorNext]_vars

----------------------------------------------------------------------------
(* LapReview: the sections of the selection (useApi) and the playback *)

MaxSectionCount == 3

MaxLapRequests == 3

\* The sections endpoints a selection can stand for; 0 is null (no lap, no composite).
LapEndpoints == {1, 2}

\* useApi's data before any response, and after setData(null)
NoLapData == [some |-> FALSE, n |-> 0]

\* const sections = lapData?.sections || []
SectionsLength == IF lapData.some THEN lapData.n ELSE 0

\* The handler or callback that runs, with the state its closure sees.
Event(name) ==
    [name |-> name, index |-> currentSectionIndex, isPlaying |-> isPlaying, length |-> SectionsLength]

\* {lapData && currentSection && (<DraggableSectionPanel ... />)}
SectionPanelRendered == lapData.some /\ currentSectionIndex < SectionsLength

LapInit ==
    /\ lapSelection = 0
    /\ currentSectionIndex = 0
    /\ isPlaying = FALSE
    /\ lapData = NoLapData
    /\ lapInflight = {}
    /\ lapEffects = "none"
    /\ lastEvent = [name |-> "none", index |-> 0, isPlaying |-> FALSE, length |-> 0]
    /\ lapRequests = 0
    /\ PipelineIdle /\ RenderIdle /\ BuilderIdle /\ ApiIdle /\ SelectorIdle /\ DragIdle

\* setSelection: RaceSelector passes null or a new selection object; an object for the
\* same lap is still a new dependency of the reset effect.
SetSelection ==
    /\ lapEffects = "none"
    /\ \E e \in LapEndpoints \cup {0} :
          /\ e # 0 \/ lapSelection # 0
          /\ (e # 0 /\ e # lapSelection) => lapRequests < MaxLapRequests
          /\ lapSelection' = e
          /\ lapEffects' = IF e # lapSelection THEN "resetAndFetch" ELSE "reset"
    /\ lastEvent' = Event("setSelection")
    /\ UNCHANGED <<currentSectionIndex, isPlaying, lapData, lapInflight, lapRequests>>
    /\ UNCHANGED <<pvars, rvars, bvars, avars, svars, dvars>>

\* The effects after a selection change: useApi's effect when the endpoint changed, and
\* useEffect(() => { setCurrentSectionIndex(0); setIsPlaying(false); }, [selection])
RunLapEffects ==
    /\ lapEffects # "none"
    /\ lapEffects' = "none"
    /\ currentSectionIndex' = 0
    /\ isPlaying' = FALSE
    /\ IF lapEffects = "reset"
       THEN UNCHANGED <<lapData, lapInflight, lapRequests>>
       ELSE IF lapSelection = 0
            THEN /\ lapData' = NoLapData
                 /\ lapInflight' = Aborted(lapInflight)
                 /\ UNCHANGED lapRequests
            ELSE /\ lapInflight' = Aborted(lapInflight)
                                     \cup {[id |-> lapRequests + 1, endpoint |-> lapSelection,
                                            aborted |-> FALSE]}
                 /\ lapRequests' = lapRequests + 1
                 /\ UNCHANGED lapData
    /\ lastEvent' = Event("effects")
    /\ UNCHANGED lapSelection
    /\ UNCHANGED <<pvars, rvars, bvars, avars, svars, dvars>>

\* setData(response.data): a sections response with n sections (n = 0: none, or no list)
SectionsRespond ==
    /\ \E r \in lapInflight : \E n \in 0..MaxSectionCount :
          /\ ~r.aborted
          /\ lapData' = [some |-> TRUE, n |-> n]
          /\ lapInflight' = lapInflight \ {r}
    /\ lastEvent' = Event("response")
    /\ UNCHANGED <<lapSelection, currentSectionIndex, isPlaying, lapEffects, lapRequests>>
    /\ UNCHANGED <<pvars, rvars, bvars, avars, svars, dvars>>

\* The request fails (setError) or was aborted: data is left as it is.
SectionsSettle ==
    /\ \E r \in lapInflight : lapInflight' = lapInflight \ {r}
    /\ lastEvent' = Event("settle")
    /\ UNCHANGED <<lapSelection, currentSectionIndex, isPlaying, lapData, lapEffects, lapRequests>>
    /\ UNCHANGED <<pvars, rvars, bvars, avars, svars, dvars>>

\* The interval callback without the test for the end: it always advances.
Tick_PastEnd ==
    /\ isPlaying
    /\ SectionsLength > 0
    /\ currentSectionIndex' = currentSectionIndex + 1
    /\ lastEvent' = Event("tick")
    /\ UNCHANGED <<lapSelection, isPlaying, lapData, lapInflight, lapEffects, lapRequests>>
    /\ UNCHANGED <<pvars, rvars, bvars, avars, svars, dvars>>

\* setInterval(() => setCurrentSectionIndex(prevIndex => ...), PLAYBACK_SPEED_MS), which
\* exists while isPlaying && sections.length > 0
Tick ==
    /\ isPlaying
    /\ SectionsLength > 0
    /\ IF currentSectionIndex >= SectionsLength - 1
       THEN isPlaying' = FALSE /\ currentSectionIndex' = currentSectionIndex
       ELSE isPlaying' = isPlaying /\ currentSectionIndex' = currentSectionIndex + 1
    /\ lastEvent' = Event("tick")
    /\ UNCHANGED <<lapSelection, lapData, lapInflight, lapEffects, lapRequests>>
    /\ UNCHANGED <<pvars, rvars, bvars, avars, svars, dvars>>

\* handlePlayPause without the restart from the beginning.
PlayPause_NoRestart(len, idx, playing) ==
    IF len = 0 THEN [index |-> idx, isPlaying |-> playing]
    ELSE [index |-> idx, isPlaying |-> ~playing]

\* handlePlayPause, as a function of sections.length, currentSectionIndex and isPlaying
PlayPause(len, idx, playing) ==
    IF len = 0 THEN [index |-> idx, isPlaying |-> playing]
    ELSE IF playing THEN [index |-> idx, isPlaying |-> FALSE]
    ELSE [index |-> IF idx >= len - 1 THEN 0 ELSE idx, isPlaying |-> TRUE]

\* The play/pause button of the section panel is clicked.
HandlePlayPause ==
    /\ lapEffects = "none"
    /\ SectionPanelRendered
    /\ currentSectionIndex' = PlayPause(SectionsLength, currentSectionIndex, isPlaying).index
    /\ isPlaying' = PlayPause(SectionsLength, currentSectionIndex, isPlaying).isPlaying
    /\ lastEvent' = Event("playPause")
    /\ UNCHANGED <<lapSelection, lapData, lapInflight, lapEffects, lapRequests>>
    /\ UNCHANGED <<pvars, rvars, bvars, avars, svars, dvars>>

\* handleStep(direction), from the previous and next buttons (disabled at the ends)
HandleStep ==
    /\ lapEffects = "none"
    /\ SectionPanelRendered
    /\ \E direction \in {-1, 1} :
          /\ direction = -1 => currentSectionIndex # 0
          /\ direction = 1 => currentSectionIndex < SectionsLength - 1
          /\ currentSectionIndex' =
                IF currentSectionIndex + direction >= 0
                   /\ currentSectionIndex + direction < SectionsLength
                THEN currentSectionIndex + direction
                ELSE currentSectionIndex
    /\ isPlaying' = FALSE
    /\ lastEvent' = Event("step")
    /\ UNCHANGED <<lapSelection, lapData, lapInflight, lapEffects, lapRequests>>
    /\ UNCHANGED <<pvars, rvars, bvars, avars, svars, dvars>>

\* handleSectionClick(sectionName): a section of the track map is clicked; its name is
\* the name of the section at position i of the list, if the list is that long.
HandleSectionClick ==
    /\ lapEffects = "none"
    /\ \E i \in 0..(MaxSectionCount - 1) :
          IF i < SectionsLength
          THEN currentSectionIndex' = i /\ isPlaying' = FALSE
          ELSE UNCHANGED <<currentSectionIndex, isPlaying>>
    /\ lastEvent' = Event("click")
    /\ UNCHANGED <<lapSelection, lapData, lapInflight, lapEffects, lapRequests>>
    /\ UNCHANGED <<pvars, rvars, bvars, avars, svars, dvars>>

LapNext ==
    \/ SetSelection
    \/ RunLapEffects
    \/ SectionsRespond
    \/ SectionsSettle
    \/ Tick
    \/ HandlePlayPause
    \/ HandleStep
    \/ HandleSectionClick

LapSpec == LapInit /\ [][LapNext]_vars

\* The interval timer fires as long as it exists, and React runs the effects it scheduled.
LapFairSpec == LapSpec /\ WF_vars(Tick) /\ WF_vars(RunLapEffects)

\* handlePlayPause applied to any sections.length, currentSectionIndex and isPlaying.
PlayPauseInit ==
    /\ lapSelection = 0
    /\ currentSectionIndex \in 0..(MaxSectionCount + 1)
    /\ isPlaying \in BOOLEAN
    /\ lapData \in {NoLapData} \cup [some : {TRUE}, n : 0..(MaxSectionCount + 1)]
    /\ lapInflight = {}
    /\ lapEffects = "none"
    /\ lastEvent = [name |-> "none", index |-> 0, isPlaying |-> FALSE, length |-> 0]
    /\ lapRequests = 0
    /\ PipelineIdle /\ RenderIdle /\ BuilderIdle /\ ApiIdle /\ SelectorIdle /\ DragIdle

CallHandlePlayPause ==
    /\ currentSectionIndex' = PlayPause(SectionsLength, currentSectionIndex, isPlaying).index
    /\ isPlaying' = PlayPause(SectionsLength, currentSectionIndex, isPlaying).isPlaying
    /\ lastEvent' = Event("playPause")
    /\ UNCHANGED <<lapSelection, lapData, lapInflight, lapEffects, lapRequests>>
    /\ UNCHANGED <<pvars, rvars, bvars, avars, svars, dvars>>

PlayPauseSpec == PlayPauseInit /\ [][CallHandlePlayPause]_vars

\* ---------------------------------------------------------------------------
\* DraggableSectionPanel: position and size kept in component state and
\* persisted in localStorage as JSON text
\* ---------------------------------------------------------------------------

Auto == -1      \* the string 'auto' as a dimension

DefaultPosition == [x |-> 50, y |-> 50]

DefaultSize == [width |-> 450, height |-> Auto]

\* window.innerWidth - rect.width and window.innerHeight - rect.height
ViewportMax == 50

Coords == {0, 50, ViewportMax}

Positions == [x : Coords, y : Coords]

MinWidth == 350
MaxWidth == 800
MinHeight == 300
MaxHeight == 1000

Sizes == [width : {MinWidth, MaxWidth}, height : {MinHeight, MaxHeight}]

\* Where the mouse can be: clientX - dragStart.x, and resizeStart.width + deltaX
MouseCoords == {-20, 0, 50, ViewportMax + 40}
RawWidths == {200, 350, 800, 900}
RawHeights == {100, 300, 1000, 1200}

PositionKey == "sectionPanelPosition"
SizeKey == "sectionPanelSize"

Min(a, b) == IF a <= b THEN a ELSE b

\* JSON.stringify of a number or of the string 'auto'
ValueText(v) == IF v = Auto THEN "\"auto\"" ELSE ToString(v)

\* JSON.stringify of a position or a size object
JSONStringify(v) ==
    IF "x" \in DOMAIN v
    THEN "{\"x\":" \o ValueText(v.x) \o ",\"y\":" \o ValueText(v.y) \o "}"
    ELSE "{\"width\":" \o ValueText(v.width) \o ",\"height\":" \o ValueText(v.height) \o "}"

\* The same object written with white space, as another writer may store it
Indented(v) ==
    IF "x" \in DOMAIN v
    THEN "{ \"x\": " \o ValueText(v.x) \o ", \"y\": " \o ValueText(v.y) \o " }"
    ELSE "{ \"width\": " \o ValueText(v.width) \o ", \"height\": " \o ValueText(v.height) \o " }"

JSONValues == Positions \cup Sizes

\* The texts JSON.parse throws a SyntaxError for
Unparseable == {"", "{x:50"}

Denotes(text, v) == JSONStringify(v) = text \/ Indented(v) = text

Parseable(text) == \E v \in JSONValues : Denotes(text, v)

JSONParse(text) == CHOOSE v \in JSONValues : Denotes(text, v)

HasItem(st, key) == key \in DOMAIN st

\* localStorage.setItem
SetItem(st, key, text) == [k \in (DOMAIN st) \cup {key} |-> IF k = key THEN text ELSE st[k]]

\* The value the load effect passes to a state setter for one key, if it calls it:
\* getItem gives null for a missing key, and null and '' are falsy
Loads(st, key) == HasItem(st, key) /\ st[key] # "" /\ Parseable(st[key])

\* useEffect(..., [position])
SavePositionEffect(st, pos) == SetItem(st, PositionKey, JSONStringify(pos))

\* useEffect(..., [size])
SaveSizeEffect(st, sz) ==
    IF sz.width # Auto /\ sz.height # Auto
    THEN SetItem(st, SizeKey, JSONStringify(sz))
    ELSE st

PositionTexts ==
    Unparseable \cup {JSONStringify(p) : p \in Positions} \cup {Indented(p) : p \in Positions}

SizeTexts == {"{x:50"} \cup {JSONStringify(s) : s \in Sizes}

\* What localStorage can hold when the panel mounts
Storages ==
    {<<>>}
    \cup {SetItem(<<>>, PositionKey, t) : t \in PositionTexts}
    \cup {SetItem(<<>>, SizeKey, t) : t \in SizeTexts}
    \cup {SetItem(SetItem(<<>>, PositionKey, t), SizeKey, u) : t \in PositionTexts, u \in SizeTexts}

EffectsFlushed == ~positionDirty /\ ~sizeDirty

\* The first render: useState's initial values, the mount effects not yet run
DragInit ==
    /\ storage \in Storages
    /\ saved = storage
    /\ position = DefaultPosition
    /\ size = DefaultSize
    /\ dpc = "mount"
    /\ positionDirty = FALSE /\ sizeDirty = FALSE
    /\ isDragging = FALSE /\ isResizing = FALSE
    /\ PipelineIdle /\ RenderIdle /\ BuilderIdle /\ ApiIdle /\ SelectorIdle /\ LapIdle

\* The save effect placed before the load effect
MountEffects_SaveFirst ==
    /\ dpc = "mount"
    /\ LET st1 == SavePositionEffect(storage, position)
           st2 == SaveSizeEffect(st1, size)
       IN /\ position' = IF Loads(st2, PositionKey) THEN JSONParse(st2[PositionKey]) ELSE position
          /\ size' = IF Loads(st2, SizeKey) THEN JSONParse(st2[SizeKey]) ELSE size
          /\ positionDirty' = Loads(st2, PositionKey)
          /\ sizeDirty' = Loads(st2, SizeKey)
          /\ storage' = st2
          /\ dpc' = IF Loads(st2, PositionKey) \/ Loads(st2, SizeKey) THEN "loading" ELSE "loaded"
    /\ UNCHANGED <<isDragging, isResizing, saved>>
    /\ UNCHANGED <<pvars, rvars, bvars, avars, svars, lvars>>

\* The effects of the mount commit, in the order of their declaration: the load
\* effect reads both keys and queues the state updates, then the two save effects
\* run with the state of the first render
MountEffects ==
    /\ dpc = "mount"
    /\ position' = IF Loads(storage, PositionKey) THEN JSONParse(storage[PositionKey]) ELSE position
    /\ size' = IF Loads(storage, SizeKey) THEN JSONParse(storage[SizeKey]) ELSE size
    /\ positionDirty' = Loads(storage, PositionKey)
    /\ sizeDirty' = Loads(storage, SizeKey)
    /\ storage' = SaveSizeEffect(SavePositionEffect(storage, position), size)
    /\ dpc' = IF Loads(storage, PositionKey) \/ Loads(storage, SizeKey) THEN "loading" ELSE "loaded"
    /\ UNCHANGED <<isDragging, isResizing, saved>>
    /\ UNCHANGED <<pvars, rvars, bvars, avars, svars, lvars>>

\* The effects of a re-render: each save effect runs if its dependency was set
RenderEffects ==
    /\ dpc # "mount"
    /\ ~EffectsFlushed
    /\ LET st1 == IF positionDirty THEN SavePositionEffect(storage, position) ELSE storage
       IN storage' = IF sizeDirty THEN SaveSizeEffect(st1, size) ELSE st1
    /\ positionDirty' = FALSE
    /\ sizeDirty' = FALSE
    /\ dpc' = IF dpc = "loading" THEN "loaded" ELSE dpc
    /\ UNCHANGED <<position, size, isDragging, isResizing, saved>>
    /\ UNCHANGED <<pvars, rvars, bvars, avars, svars, lvars>>

HandleMouseDown ==
    /\ dpc \in {"loaded", "used"}
    /\ EffectsFlushed
    /\ \E target \in {"panel", "resizeHandle", "button"} :
          /\ isResizing' = IF target = "resizeHandle" THEN TRUE ELSE isResizing
          /\ isDragging' = IF target = "panel" THEN TRUE ELSE isDragging
    /\ UNCHANGED <<storage, position, size, dpc, positionDirty, sizeDirty, saved>>
    /\ UNCHANGED <<pvars, rvars, bvars, avars, svars, lvars>>

HandleMouseMove ==
    /\ dpc \in {"loaded", "used"}
    /\ EffectsFlushed
    /\ isDragging \/ isResizing
    /\ IF isResizing
       THEN /\ \E w \in RawWidths, h \in RawHeights :
                  size' = [width |-> Max(MinWidth, Min(MaxWidth, w)),
                           height |-> Max(MinHeight, Min(MaxHeight, h))]
            /\ sizeDirty' = TRUE
            /\ UNCHANGED <<position, positionDirty>>
       ELSE /\ \E newX \in MouseCoords, newY \in MouseCoords :
                  position' = [x |-> Max(0, Min(ViewportMax, newX)),
                               y |-> Max(0, Min(ViewportMax, newY))]
            /\ positionDirty' = TRUE
            /\ UNCHANGED <<size, sizeDirty>>
    /\ dpc' = "used"
    /\ UNCHANGED <<storage, isDragging, isResizing, saved>>
    /\ UNCHANGED <<pvars, rvars, bvars, avars, svars, lvars>>

HandleMouseUp ==
    /\ dpc \in {"loaded", "used"}
    /\ EffectsFlushed
    /\ isDragging \/ isResizing
    /\ isDragging' = FALSE
    /\ isResizing' = FALSE
    /\ UNCHANGED <<storage, position, size, dpc, positionDirty, sizeDirty, saved>>
    /\ UNCHANGED <<pvars, rvars, bvars, avars, svars, lvars>>

\* LapReview stops rendering the panel and renders it again: a new instance mounts
\* with the initial state and finds what the previous one stored
Remount ==
    /\ dpc \in {"loaded", "used"}
    /\ EffectsFlushed
    /\ position' = DefaultPosition
    /\ size' = DefaultSize
    /\ isDragging' = FALSE
    /\ isResizing' = FALSE
    /\ saved' = storage
    /\ dpc' = "mount"
    /\ UNCHANGED <<storage, positionDirty, sizeDirty>>
    /\ UNCHANGED <<pvars, rvars, bvars, avars, svars, lvars>>

DragNext ==
    \/ MountEffects
    \/ RenderEffects
    \/ HandleMouseDown
    \/ HandleMouseMove
    \/ HandleMouseUp
    \/ Remount

DragSpec == DragInit /\ [][DragNext]_vars

\* C4: gap is driver time minus composite time. For a regular lap the gap shown in
\* SectionPanel's "Optimal" row denotes driver_time_ms - best_possible_time_ms ("-" when
\* a time is absent); the gap shown by TotalLapTimeComparison denotes driverTotalTime -
\* optimalTotalTime; equal times give a gap of exactly 0.000 without sign; in composite
\* mode the total gap is 0 for every list of sections.
C4_GapIsDriverMinusComposite ==
    /\ (component = "SectionPanel" /\ rendered /\ ~props.isComposite) =>
          LET d == props.section.driver_time_ms
              b == props.section.best_possible_time_ms
              g == view.optimal.gap
          IN  IF IsNum(d) /\ IsNum(b)
              THEN /\ ~g.dash
                   /\ FixedValue(g.text) = d.v - b.v
                   /\ (d.v = b.v) =>
                         (~g.plus /\ ~g.text.neg /\ g.text.whole = 0 /\ g.text.frac = 0 /\ g.cls = "")
              ELSE g.dash
    /\ (component = "TotalLapTimeComparison" /\ rendered) =>
          LET g == view.gapShown
          IN  /\ ~g.dash
              /\ FixedValue(g.text) = view.driverTotalTime - view.optimalTotalTime
              /\ (view.driverTotalTime = view.optimalTotalTime \/ props.isComposite) =>
                    (~g.plus /\ ~g.text.neg /\ g.text.whole = 0 /\ g.text.frac = 0 /\ g.cls = "")

C4_Witness_SlowerThanComposite ==
    /\ component = "SectionPanel" /\ rendered /\ ~props.isComposite
    /\ IsNum(props.section.driver_time_ms) /\ IsNum(props.section.best_possible_time_ms)
    /\ props.section.driver_time_ms.v > props.section.best_possible_time_ms.v
    /\ view.optimal.gap.plus

\* The sum of a time field over a list, absent times adding nothing.
RECURSIVE SumOfField(_, _)
SumOfField(list, field) ==
    IF list = <<>> THEN 0
    ELSE (IF IsNum(Head(list)[field]) THEN Head(list)[field].v ELSE 0) + SumOfField(Tail(list), field)

\* C5 (as amended): for a regular lap with a non-empty best-case section list the optimal
\* total lap time is the sum of best_time_ms over exactly the best-case sections; the sum
\* of the lap's own best_possible_time_ms is the optimal total only when the best-case
\* list is empty.
C5_OptimalTotalIsSumOfBestCase ==
    (component = "TotalLapTimeComparison" /\ rendered /\ ~props.isComposite) =>
        IF Len(props.bestCaseSections) > 0
        THEN view.optimalTotalTime = SumOfField(props.bestCaseSections, "best_time_ms")
        ELSE view.optimalTotalTime = SumOfField(props.sections, "best_possible_time_ms")

\* Every time of the lap's sections and of the best-case sections is recorded.
AllTimesRecorded(p) ==
    /\ \A i \in 1..Len(p.sections) :
          IsNum(p.sections[i].driver_time_ms) /\ IsNum(p.sections[i].best_possible_time_ms)
    /\ \A i \in 1..Len(p.bestCaseSections) : IsNum(p.bestCaseSections[i].best_time_ms)

C5_Witness_BestCaseDiffersFromLap ==
    /\ component = "TotalLapTimeComparison" /\ rendered /\ ~props.isComposite
    /\ Len(props.bestCaseSections) > 0
    /\ AllTimesRecorded(props)
    /\ view.shown
    /\ view.optimalTotalTime > 0
    /\ SumOfField(props.bestCaseSections, "best_time_ms")
          # SumOfField(props.sections, "best_possible_time_ms")

\* C5 (original): for a regular lap with a non-empty best-case section list and every
\* time recorded, the optimal total equals the sum of best_time_ms over the best-case
\* sections and equals the sum of the best_possible_time_ms values of the lap's own sections.
C5_Original_AlsoSumOfLapSections ==
    (component = "TotalLapTimeComparison" /\ rendered /\ ~props.isComposite
        /\ Len(props.bestCaseSections) > 0 /\ AllTimesRecorded(props)) =>
        /\ view.optimalTotalTime = SumOfField(props.bestCaseSections, "best_time_ms")
        /\ view.optimalTotalTime = SumOfField(props.sections, "best_possible_time_ms")

\* The gap summed over the sections that have both a driver time and an optimal time.
RECURSIVE PopulatedGap(_)
PopulatedGap(list) ==
    IF list = <<>> THEN 0
    ELSE (IF IsNum(Head(list).driver_time_ms) /\ IsNum(Head(list).best_possible_time_ms)
          THEN Head(list).driver_time_ms.v - Head(list).best_possible_time_ms.v
          ELSE 0) + PopulatedGap(Tail(list))

MissingSome(list) ==
    \E i \in 1..Len(list) : ~IsNum(list[i].driver_time_ms) \/ ~IsNum(list[i].best_possible_time_ms)

PopulatedSome(list) ==
    \E i \in 1..Len(list) : IsNum(list[i].driver_time_ms) \/ IsNum(list[i].best_possible_time_ms)

\* C8: when a section of the lap has no recorded time, the comparison is still produced
\* for the populated sections, it is flagged as partial, and the section with the
\* missing time is not counted as a time of 0: the gap covers the populated sections only.
C8_MissingSectionIsPartial ==
    (component = "TotalLapTimeComparison" /\ rendered /\ ~props.isComposite
        /\ MissingSome(props.sections)) =>
        /\ PopulatedSome(props.sections) => view.shown
        /\ view.shown => "Partial" \in view.rows
        /\ (Len(props.bestCaseSections) = 0) => (view.timeGap = PopulatedGap(props.sections))

\* The valid recorded times of one section in one race's records.
ValidTimesOf(rows, n) ==
    {rows[i].time.v : i \in {j \in 1..Len(rows) : rows[j].section_name = n /\ ValidTime(rows[j].time)}}

\* C6: for every processed race and every section with at least one valid recorded
\* time, the composite time of the section is one of the valid recorded times of that
\* section and no valid recorded time of the section is smaller.
C6_CompositeIsTrueMinimum ==
    \A r \in BuilderRaces : runs[r] > 0 =>
        \A n \in SectionNames : ValidTimesOf(raw[r], n) # {} =>
            /\ composites[r].sections[n].observed
            /\ composites[r].sections[n].best_time_ms \in ValidTimesOf(raw[r], n)
            /\ \A t \in ValidTimesOf(raw[r], n) : composites[r].sections[n].best_time_ms <= t

C6_Witness_LaterRowIsFaster ==
    \E r \in BuilderRaces :
        /\ runs[r] > 0
        /\ Len(raw[r]) >= 2
        /\ raw[r][1].section_name = raw[r][2].section_name
        /\ ValidTime(raw[r][1].time) /\ ValidTime(raw[r][2].time)
        /\ raw[r][2].time.v < raw[r][1].time.v
        /\ composites[r].sections[raw[r][1].section_name].lap = 2

EmptyResultDisplayed ==
    /\ Mounted
    /\ lastResponse.ok
    /\ lastResponse.body \in {"empty_list", "object", "null"}
    /\ lastResponse.endpoint = Endpoint(panelProps)
    /\ ~EffectPending
    /\ \A r \in inflight : r.aborted

C10_EmptyResultIsNotAnError ==
    EmptyResultDisplayed =>
        /\ PanelFrame(loading, error, data).emptyShown
        /\ ~PanelFrame(loading, error, data).errorShown
        /\ ~PanelFrame(loading, error, data).contentShown
        /\ error = "null"

C10_Witness_EmptyAfterAbortedRequest ==
    /\ EmptyResultDisplayed
    /\ lastResponse.body = "empty_list"
    /\ \E r \in inflight : r.aborted
    /\ PanelFrame(loading, error, data).emptyShown

\* The numeric aggregates a recommendation document carries.
PresentNumbers(q) ==
    IF q.recommendationType = "weather"
    THEN q.recommendation.weather_summary
           \cup (IF q.recommendation.data_points THEN {"data_points"} ELSE {})
    ELSE {f \in PatternStats : StatDefined(q.recommendation, f)}

\* C9: when a weather or pattern document carries no narrative (recommendation_text
\* empty or missing), the panel shows every numeric aggregate present in the document
\* and no narrative, and neither the error state nor the empty state.
C9_AggregatesShownWithoutNarrative ==
    (component = "DraggableRecommendationPanel" /\ rendered
        /\ props.recommendation.recommendation_text \in {"undefined", "empty"}) =>
        /\ ~view.frame.errorShown
        /\ ~view.frame.emptyShown
        /\ ~view.content.narrativeShown
        /\ \A f \in PresentNumbers(props) : view.content.numbers[f] = "value"

\* The requests for the endpoint the hook currently has that are still wanted.
CurrentRequests == {r \in inflight : ~r.aborted /\ r.endpoint = Endpoint(panelProps)}

\* C15: while a request for the current endpoint is in flight, loading is true.
C15_LoadingTracksCurrentRequest ==
    (Mounted /\ ~EffectPending /\ CurrentRequests # {}) => loading

\* The requests that leave the set of requests in flight in a step (their promise settles).
Settles(r) == r \in inflight /\ r \notin inflight' /\ [r EXCEPT !.aborted = TRUE] \notin inflight'

\* C16: a cancelled request does nothing: the step in which an aborted request settles
\* changes neither data nor error; every request that writes data or error is the request
\* of the latest run of the effect, so a response for an earlier endpoint never
\* overwrites the response for a later one.
C16_CancelledRequestWritesNothing ==
    [][\A r \in inflight : Settles(r) =>
          IF r.aborted
          THEN data' = data /\ error' = error /\ lastResponse' = lastResponse
          ELSE /\ r.endpoint = effectFor
               /\ \A o \in inflight : o.id > r.id => o = r]_vars

C16_Witness_LaterResponseKept ==
    /\ cancelled >= 1
    /\ inflight = {}
    /\ Mounted
    /\ lastResponse.ok
    /\ lastResponse.body = "list"
    /\ lastResponse.endpoint = effectFor
    /\ data = "list"
    /\ error = "null"

\* C17: with a null endpoint the hook has no request in flight and, once the effects have
\* run and the earlier requests have settled, data is null, error is null and loading
\* is false.
C17_NullEndpointClearsState ==
    (Mounted /\ ~EffectPending /\ Endpoint(panelProps) = NullEndpoint
        /\ effectFor = NullEndpoint /\ inflight = {}) =>
        /\ data = "null"
        /\ error = "null"
        /\ loading = FALSE

\* C11: cascading resets. While handleTrackChange is the last selector handler that ran,
\* the selected race, driver and lap are empty, composite is off and LapReview's
\* selection is null; while handleRaceChange is the last one, the selected driver and lap
\* are empty, composite is off and the selection is null. This holds after the
\* notification effect has run, however often it runs again.
C11_CascadingResets ==
    /\ (lastChange = "track") =>
          /\ selectedRace = 0 /\ selectedDriver = 0 /\ selectedLap = 0
          /\ ~isComposite
          /\ selection = NullSelection
    /\ (lastChange = "race") =>
          /\ selectedDriver = 0 /\ selectedLap = 0
          /\ ~isComposite
          /\ selection = NullSelection

C11_Witness_RaceChangedAfterLapSelection ==
    /\ lastChange = "race"
    /\ selectedRace # 0
    /\ ~notifyPending
    /\ activeRecommendationType # "null"
    /\ selection = NullSelection

\* C12: while the selection is the Best Case Composite, or no lap is selected, no
\* recommendation panel is displayed and the panel has no endpoint to request.
C12_NoAnalysisForComposite ==
    (~notifyPending /\ (~selection.some \/ selection.isComposite \/ selection.lapId = 0)) =>
        /\ ~PanelDisplayed
        /\ PanelEndpoint = NullEndpoint

C14_HandlePlayPause ==
    (lastEvent.name = "playPause") =>
        IF lastEvent.length = 0
        THEN currentSectionIndex = lastEvent.index /\ isPlaying = lastEvent.isPlaying
        ELSE IF lastEvent.isPlaying
        THEN currentSectionIndex = lastEvent.index /\ ~isPlaying
        ELSE /\ isPlaying
             /\ currentSectionIndex = IF lastEvent.index >= lastEvent.length - 1
                                      THEN 0 ELSE lastEvent.index

C14_Witness_RestartFromTheEnd ==
    /\ lastEvent.name = "playPause"
    /\ ~lastEvent.isPlaying
    /\ lastEvent.length >= 2
    /\ lastEvent.index = lastEvent.length - 1
    /\ currentSectionIndex = 0
    /\ isPlaying

\* C18: whenever the section list is non-empty, currentSectionIndex is the index of one
\* of its sections.
C18_CurrentSectionExists ==
    (SectionsLength > 0) => (0 <= currentSectionIndex /\ currentSectionIndex < SectionsLength)

\* The size item of localStorage is written in this step
SizeWritten ==
    /\ HasItem(storage', SizeKey)
    /\ ~HasItem(storage, SizeKey) \/ storage'[SizeKey] # storage[SizeKey]

\* C19: the panel position round-trips through localStorage. If localStorage holds
\* a valid saved position P when the panel mounts, then after the mount effects and
\* the re-render they cause the position is P and 'sectionPanelPosition' holds P
\* again; if the stored text cannot be parsed the position is the default
\* {x: 50, y: 50}; and the size item is written only with a size whose width and
\* height are both numbers.
C19_PositionRoundTrip ==
    /\ [](dpc = "loaded" =>
            /\ Loads(saved, PositionKey) =>
                  /\ position = JSONParse(saved[PositionKey])
                  /\ HasItem(storage, PositionKey)
                  /\ Parseable(storage[PositionKey])
                  /\ JSONParse(storage[PositionKey]) = JSONParse(saved[PositionKey])
            /\ (HasItem(saved, PositionKey) /\ saved[PositionKey] \in Unparseable) =>
                  position = DefaultPosition)
    /\ [][SizeWritten =>
            /\ size'.width # Auto /\ size'.height # Auto
            /\ storage'[SizeKey] = JSONStringify(size')]_vars

\* A saved position other than the default, stored with white space, was loaded and
\* written back.
C19_Witness_SavedPositionRestored ==
    /\ dpc = "loaded"
    /\ Loads(saved, PositionKey)
    /\ JSONParse(saved[PositionKey]) # DefaultPosition
    /\ position = JSONParse(saved[PositionKey])
    /\ storage[PositionKey] = JSONStringify(position)
    /\ storage[PositionKey] # saved[PositionKey]

====
